---- MODULE Spec2Model ----
(***************************************************************************)
(* Real-time messaging app: the socket.io fan-out of the server (the      *)
(* io.on('connection') handlers), the React client around it              *)
(* (SocketContext, Chat, ChatRoom) and the message route the client posts *)
(* to before it emits.                                                    *)
(*                                                                         *)
(* Node runs each socket handler to completion, so a handler is one step. *)
(* socket.io keeps a connection's events in order, so a client emit and   *)
(* the server handler it triggers are taken as one step while the socket  *)
(* is connected; while it is not, the emit waits in the client's send     *)
(* buffer.  Server-to-client packets are in flight until delivered, in    *)
(* any order across connections.                                          *)
(*                                                                         *)
(* Spec is the server with clients that emit any event with any payload;  *)
(* SpecClient is the server with the clients of this repository;          *)
(* SpecChat is those clients selecting rooms and exchanging messages over *)
(* sockets that stay connected; SpecTyping is one of them typing,         *)
(* switching rooms and sending.                                           *)
(*                                                                         *)
(* The routes of rooms.js and messages.js are async handlers: a handler   *)
(* runs from one await to the next as one step, and the handlers of other *)
(* requests run between its steps.  SpecRooms is the rooms routes and     *)
(* SpecMessages the messages routes, each with requests under way at the  *)
(* same time, over the Room and Message documents as mongoose saves them. *)
(***************************************************************************)
EXTENDS Integers, Sequences, FiniteSets, TLC

\* ------------------------------------------------------------ universe
Conns == {"c1", "c2", "c3"}
Rooms == {"r1", "r2"}
Users == {"u1", "u2"}
Contents == {"hi"}
NoRoom == "none"
Undefined == "undefined"

\* The User collection: the users of the clients and one more account.
Accounts == Users \cup {"u3"}

\* HTTP requests that can be under way at the same time.
Slots == {"q1", "q2"}

\* What DELETE /api/messages/:id writes into the content of the message.
DeletedContent == "This message was deleted"

\* The content PUT /api/messages/:id sends.
EditedContent == "edited"

\* A message too long for the route's validation (more than 2000 characters).
TooLong == "long"

\* The content uploadFiles sends when the input field is empty.
FileCaption == "Shared a file"

\* Bounds of the exploration.
MaxEmits == 1
MaxInputs == 3
MaxChatInputs == 4
MaxTypingInputs == 4
MaxRoomRequests == 3
MaxMessageRequests == 3

\* The capacity the outbound queue of a connection is checked against.
QueueCapacity == 2

\* The clients that write messages in SpecChat.
Authors == {"c1"}
\* The client whose user writes in the typing specification: its user is a
\* member of both rooms.
Typists == {"c2"}

\* The typing timeout of ChatRoom (1000 ms), in ticks of one second.
TTL == 1
NoAge == 0 - 1

\* The user logged in at the client that owns connection c (useAuth().user).
UserOf(c) == IF c = "c1" THEN "u1" ELSE "u2"

VARIABLES
  connected,    \* [Conns -> BOOLEAN]: the socket of the client is connected
  rooms,        \* [Rooms -> SUBSET Conns]: socket.io adapter rooms
  joined,       \* history: conns whose last join_room(r) is not yet followed
                \* by leave_room(r) or disconnect
  typingAge,    \* history: [Rooms -> [Users -> age]], the time since the last
                \* typing=true for (room, user) when no event of the user followed
  nEmits,       \* number of broadcasts the server has issued
  lastEmit,     \* observation: the last broadcast the last step issued, if any,
                \* with the broadcasts the step issued before it (prev)
  inflight,     \* packets written to a recipient's socket, not yet delivered
  sendBuffer,   \* [Conns -> Seq(event)]: client emits made while disconnected
  selectedRoom, \* [Conns -> Rooms \cup {NoRoom}]: Chat.selectedRoom
  isTyping,     \* [Conns -> BOOLEAN]: ChatRoom.isTyping
  typingTimer,  \* [Conns -> timer]: ChatRoom.typingTimeoutRef
  pendingSend,  \* [Conns -> send]: handleSendMessage awaiting POST /api/messages
  messages,     \* [Conns -> Seq(message)]: ChatRoom.messages
  typingUsers,  \* [Conns -> Seq(payload)]: ChatRoom.typingUsers
  sendResult,   \* [Conns -> result]: how the last handleSendMessage ended
  listeners,    \* [Conns -> Seq(listener)]: the socket's 'receive_message' listeners
  fetching,     \* [Conns -> SUBSET Rooms]: fetchMessages awaiting GET /api/messages/:roomId
  typingSent,   \* history: [Conns -> SUBSET Rooms], the rooms for which the last
                \* typing event the client emitted said isTyping=true
  members,      \* [Rooms -> Seq([user, role])]: Room.members
  stored,       \* Seq(message): the Message collection
  msgMeta,      \* Seq([isDeleted, reactions, v]): the other fields of the
                \* messages (isDeleted, reactions, __v), in the order of stored
  roomDocs,     \* [Rooms -> [name, v, lastMessage]]: the other fields of the
                \* rooms (name, __v, lastMessage as a position in stored)
  directs,      \* Seq(Seq([user, role])): the members of the rooms of type direct
  requests,     \* [Slots -> request]: HTTP requests between two awaits
  response,     \* observation: the response the last step sent, if any
  nInputs       \* number of user inputs and requests taken

serverVars == <<rooms, joined, typingAge, nEmits, lastEmit, inflight>>
clientVars == <<sendBuffer, selectedRoom, isTyping, typingTimer, pendingSend,
                messages, typingUsers, sendResult, listeners, fetching, typingSent,
                nInputs>>
dbVars == <<members, stored, msgMeta, roomDocs, directs>>
httpVars == <<requests, response>>
vars == <<connected, serverVars, clientVars, dbVars, httpVars>>

\* ------------------------------------------------------------ payloads
\* Field access as JavaScript does it: a missing property reads undefined.
Field(rec, name) == IF name \in DOMAIN rec THEN rec[name] ELSE Undefined

MessageData == [roomId : Rooms, sender : Users, content : Contents]
TypingData == [roomId : Rooms, userId : Users, isTyping : BOOLEAN]

JoinEv(r) == [type |-> "join_room", roomId |-> r]
LeaveEv(r) == [type |-> "leave_room", roomId |-> r]
MessageEv(d) == [type |-> "send_message", data |-> d]
TypingEv(d) == [type |-> "typing", data |-> d]

NoEmit == [id |-> 0]

\* ------------------------------------------------------------ server
\* Mutant: a join that toggles the subscription of the socket.
SocketJoinToggles(rms, c, r) ==
  [rms EXCEPT ![r] = IF c \in @ THEN @ \ {c} ELSE @ \cup {c}]

\* socket.join(roomId): the adapter keeps a room as a set of socket ids.
SocketJoin(rms, c, r) == [rms EXCEPT ![r] = @ \cup {c}]

\* Mutant: leave_room that does not remove the socket.
SocketLeaveKeeps(rms, c, r) == rms

\* socket.leave(roomId)
SocketLeave(rms, c, r) == [rms EXCEPT ![r] = @ \ {c}]

\* Mutant: io.to(roomId), which includes the sender.
SocketToAll(rms, c, r) == rms[r]

\* socket.to(roomId): every socket in the room except the sender
SocketTo(rms, c, r) == rms[r] \ {c}

\* Mutant: a disconnect that leaves the socket in its rooms.
SocketLeaveAllKeeps(rms, c) == rms

\* What socket.io does with a socket's rooms when it disconnects: the
\* 'disconnect' handler itself only logs.
SocketLeaveAll(rms, c) == [r \in Rooms |-> rms[r] \ {c}]

\* The payload of receive_message: the client's data, unchanged.
ReceiveMessagePayload(data) == data

\* Mutant: a user_typing payload that also carries the room id.
UserTypingPayloadWithRoom(data) ==
  [roomId |-> data.roomId, userId |-> data.userId, username |-> data.userId,
   isTyping |-> data.isTyping]

\* Mutant: a user_typing payload with the typing flag fixed.
UserTypingPayloadStuck(data) ==
  [userId |-> data.userId, username |-> data.userId, isTyping |-> TRUE]

\* The payload of user_typing: three fields copied from the client's data.
UserTypingPayload(data) ==
  [userId |-> data.userId, username |-> data.userId, isTyping |-> data.isTyping]

\* socket.to(room).emit(event, payload): one packet per socket of the audience.
Broadcast(s, c, event, r, input, payload) ==
  LET to == SocketTo(s.rooms, c, r)
      id == s.nEmits + 1
  IN [s EXCEPT !.nEmits = id,
               !.lastEmit = [id |-> id, event |-> event, from |-> c, room |-> r,
                             input |-> input, data |-> payload,
                             subs |-> s.rooms[r], to |-> to, prev |-> s.lastEmit],
               !.inflight = @ \cup {[id |-> id, to |-> t, event |-> event, room |-> r,
                                     data |-> payload] : t \in to}]

\* The handlers registered in io.on('connection'), on the server state s.
OnJoinRoom(s, c, r) ==
  [s EXCEPT !.rooms = SocketJoin(s.rooms, c, r), !.joined[r] = @ \cup {c}]

OnLeaveRoom(s, c, r) ==
  [s EXCEPT !.rooms = SocketLeave(s.rooms, c, r), !.joined[r] = @ \ {c}]

OnSendMessage(s, c, data) ==
  Broadcast(s, c, "receive_message", data.roomId, data, ReceiveMessagePayload(data))

OnTyping(s, c, data) ==
  Broadcast(s, c, "user_typing", data.roomId, data, UserTypingPayload(data))

\* History: an event of connection c ends the "no further event" period of
\* its user; a typing=true starts one for the (room, user) it names.
NoteEvent(s, c, ev) ==
  LET cleared == [r \in Rooms |-> [u \in Users |->
                    IF u = UserOf(c) \/ (ev.type = "typing" /\ u = ev.data.userId)
                    THEN NoAge ELSE s.typingAge[r][u]]]
  IN [s EXCEPT !.typingAge =
        IF ev.type = "typing" /\ ev.data.isTyping
        THEN [cleared EXCEPT ![ev.data.roomId][ev.data.userId] = 0]
        ELSE cleared]

\* Mutant: a disconnect that leaves the packets of the closed socket queued.
OnDisconnectKeepsQueue(s, c) ==
  [s EXCEPT !.rooms = SocketLeaveAll(s.rooms, c),
            !.joined = [r \in Rooms |-> @[r] \ {c}]]

\* Mutant: a disconnect that discards the packets of every connection.
OnDisconnectDropsAll(s, c) ==
  [s EXCEPT !.rooms = SocketLeaveAll(s.rooms, c),
            !.joined = [r \in Rooms |-> @[r] \ {c}],
            !.inflight = {}]

OnDisconnect(s, c) ==
  [s EXCEPT !.rooms = SocketLeaveAll(s.rooms, c),
            !.joined = [r \in Rooms |-> @[r] \ {c}],
            !.inflight = {p \in @ : p.to # c}]

Handle(s, c, ev) ==
  LET t == NoteEvent(s, c, ev)
  IN CASE ev.type = "join_room" -> OnJoinRoom(t, c, ev.roomId)
       [] ev.type = "leave_room" -> OnLeaveRoom(t, c, ev.roomId)
       [] ev.type = "send_message" -> OnSendMessage(t, c, ev.data)
       [] ev.type = "typing" -> OnTyping(t, c, ev.data)

RECURSIVE HandleAll(_, _, _)
HandleAll(s, c, evs) ==
  IF evs = <<>> THEN s ELSE HandleAll(Handle(s, c, Head(evs)), c, Tail(evs))

\* The server state a step starts from; lastEmit observes this step only.
Server ==
  [rooms |-> rooms, joined |-> joined, typingAge |-> typingAge, nEmits |-> nEmits,
   lastEmit |-> NoEmit, inflight |-> inflight]

SetServer(s) ==
  /\ rooms' = s.rooms
  /\ joined' = s.joined
  /\ typingAge' = s.typingAge
  /\ nEmits' = s.nEmits
  /\ lastEmit' = s.lastEmit
  /\ inflight' = s.inflight

\* ------------------------------------------------------------ client listeners
\* Chat: socket.on('receive_message'), which logs the message.
ChatListener == [owner |-> "Chat", room |-> NoRoom]

\* ChatRoom: the listeners registered by the effect that ran for room r.
ChatRoomListener(r) == [owner |-> "ChatRoom", room |-> r]

\* Mutant: a cleanup that leaves the listeners registered.
SocketOffKeeps(ls) == ls

\* socket.off('receive_message'): removes every listener of the event.
SocketOff(ls) == <<>>

\* The effect of ChatRoom on [socket, room._id]: when the room changes, the
\* cleanup of the previous effect runs and the listeners are registered for
\* the new room; a render with the same room runs nothing.
RegisterChatRoom(ls, old, r) ==
  IF old = r THEN ls
  ELSE Append(IF old = NoRoom THEN ls ELSE SocketOff(ls), ChatRoomListener(r))

\* ChatRoom: socket.on('receive_message'), registered for the open room.
OnReceiveMessage(msgs, room, data) ==
  IF Field(data, "roomId") = room THEN Append(msgs, data) ELSE msgs

\* The 'receive_message' listeners of a socket run in the order registered.
RECURSIVE RunListeners(_, _, _)
RunListeners(ls, msgs, data) ==
  IF ls = <<>> THEN msgs
  ELSE RunListeners(Tail(ls),
                    IF Head(ls).owner = "ChatRoom"
                    THEN OnReceiveMessage(msgs, Head(ls).room, data) ELSE msgs,
                    data)

\* Mutant: a listener that lists the user whatever the room and the flag.
OnUserTypingUnfiltered(list, room, data) ==
  Append(SelectSeq(list, LAMBDA u : u.userId # data.userId), data)

\* ChatRoom: socket.on('user_typing'), registered for the open room.
OnUserTyping(list, room, data) ==
  IF Field(data, "roomId") = room
  THEN IF data.isTyping
       THEN Append(SelectSeq(list, LAMBDA u : u.userId # data.userId), data)
       ELSE SelectSeq(list, LAMBDA u : u.userId # data.userId)
  ELSE list

\* ------------------------------------------------------------ initial state
NoTimer == [left |-> -1, room |-> NoRoom]
NoSend == [room |-> NoRoom, content |-> "", kind |-> "none", status |-> "none"]

NoRequest == [route |-> "none"]
NoResponse == [status |-> 0]

\* A room as POST /api/rooms saved it, with no message yet.
NewRoom == [name |-> "general", v |-> 0, lastMessage |-> 0]

\* The defaults of the Message schema.
NewMeta == [isDeleted |-> FALSE, reactions |-> {}, v |-> 0]

\* The rooms exist with their members.
InitMembers ==
  [r \in Rooms |->
     IF r = "r1"
     THEN <<[user |-> "u1", role |-> "admin"], [user |-> "u2", role |-> "member"]>>
     ELSE <<[user |-> "u2", role |-> "admin"]>>]

\* Every client has mounted its SocketProvider and Chat, and its socket has
\* connected; no room is selected yet.
Init ==
  /\ connected = [c \in Conns |-> TRUE]
  /\ rooms = [r \in Rooms |-> {}]
  /\ joined = [r \in Rooms |-> {}]
  /\ typingAge = [r \in Rooms |-> [u \in Users |-> NoAge]]
  /\ nEmits = 0
  /\ lastEmit = NoEmit
  /\ inflight = {}
  /\ sendBuffer = [c \in Conns |-> <<>>]
  /\ selectedRoom = [c \in Conns |-> NoRoom]
  /\ isTyping = [c \in Conns |-> FALSE]
  /\ typingTimer = [c \in Conns |-> NoTimer]
  /\ pendingSend = [c \in Conns |-> NoSend]
  /\ messages = [c \in Conns |-> <<>>]
  /\ typingUsers = [c \in Conns |-> <<>>]
  /\ sendResult = [c \in Conns |-> "none"]
  /\ listeners = [c \in Conns |-> <<ChatListener>>]
  /\ fetching = [c \in Conns |-> {}]
  /\ typingSent = [c \in Conns |-> {}]
  /\ members = InitMembers
  /\ stored = <<>>
  /\ msgMeta = <<>>
  /\ roomDocs = [r \in Rooms |-> NewRoom]
  /\ directs = <<>>
  /\ requests = [q \in Slots |-> NoRequest]
  /\ response = NoResponse
  /\ nInputs = 0

\* ------------------------------------------------------------ socket events
\* The user the server has authenticated for the socket of c: io has no
\* middleware (io.use) and the connection listener reads nothing of the
\* handshake, so no socket has one.
SocketUser(c) == Undefined

\* io.on('connection'): a new socket, in no room, on the running process (a
\* process that exited has been started again); the client flushes the emits
\* it buffered while disconnected, in order.
Connect(c) ==
  /\ ~connected[c]
  /\ connected' = [connected EXCEPT ![c] = TRUE]
  /\ SetServer(HandleAll(Server, c, sendBuffer[c]))
  /\ sendBuffer' = [sendBuffer EXCEPT ![c] = <<>>]
  /\ UNCHANGED <<typingSent, listeners, fetching,
                 selectedRoom, isTyping, typingTimer, pendingSend, messages,
                 typingUsers, sendResult, nInputs, dbVars, httpVars>>

\* socket.on('disconnect')
Disconnect(c) ==
  /\ connected[c]
  /\ connected' = [connected EXCEPT ![c] = FALSE]
  /\ SetServer(OnDisconnect(Server, c))
  /\ UNCHANGED <<clientVars, dbVars, httpVars>>

\* socket.on('join_room') with a room id of the client's choosing
JoinRoom(c, r) ==
  /\ connected[c]
  /\ SetServer(Handle(Server, c, JoinEv(r)))
  /\ UNCHANGED <<connected, clientVars, dbVars, httpVars>>

\* socket.on('leave_room')
LeaveRoom(c, r) ==
  /\ connected[c]
  /\ SetServer(Handle(Server, c, LeaveEv(r)))
  /\ UNCHANGED <<connected, clientVars, dbVars, httpVars>>

\* socket.on('send_message') with a payload of the client's choosing
SendMessage(c, data) ==
  /\ connected[c]
  /\ nEmits < MaxEmits
  /\ SetServer(Handle(Server, c, MessageEv(data)))
  /\ UNCHANGED <<connected, clientVars, dbVars, httpVars>>

\* socket.on('typing') with a payload of the client's choosing
Typing(c, data) ==
  /\ connected[c]
  /\ nEmits < MaxEmits
  /\ SetServer(Handle(Server, c, TypingEv(data)))
  /\ UNCHANGED <<connected, clientVars, dbVars, httpVars>>

\* What the last step did on the wire when it was no broadcast: the packet
\* the listeners of an open ChatRoom handled.
Handled(p) == [id |-> 0, handled |-> p]

\* The process after an exception no handler catches: it has exited, every
\* socket is closed, and the rooms and the packets are gone with it.
Exited(s) ==
  [s EXCEPT !.rooms = [r \in Rooms |-> {}],
            !.joined = [r \in Rooms |-> {}],
            !.typingAge = [r \in Rooms |-> [u \in Users |-> NoAge]],
            !.inflight = {}]

\* socket.on('send_message') and socket.on('typing') for an event emitted
\* without a payload: data is undefined, reading data.roomId throws a
\* TypeError inside the listener, which nothing catches.
EmitWithoutPayload(c, event) ==
  /\ connected[c]
  /\ event \in {"send_message", "typing"}
  /\ connected' = [d \in Conns |-> FALSE]
  /\ SetServer(Exited(Server))
  /\ UNCHANGED <<clientVars, dbVars, httpVars>>

\* A packet in flight reaches its client and the listeners of its event run.
Deliver(p) ==
  /\ p \in inflight
  /\ inflight' = inflight \ {p}
  /\ lastEmit' = IF selectedRoom[p.to] # NoRoom THEN Handled(p) ELSE NoEmit
  /\ messages' =
       IF p.event = "receive_message"
       THEN [messages EXCEPT ![p.to] = RunListeners(listeners[p.to], @, p.data)]
       ELSE messages
  /\ typingUsers' =
       IF p.event = "user_typing" /\ selectedRoom[p.to] # NoRoom
       THEN [typingUsers EXCEPT ![p.to] = OnUserTyping(@, selectedRoom[p.to], p.data)]
       ELSE typingUsers
  /\ UNCHANGED <<typingSent, listeners, fetching, connected, rooms, joined, typingAge, nEmits,
                 sendBuffer, selectedRoom, isTyping, typingTimer, pendingSend,
                 sendResult, nInputs, dbVars, httpVars>>

\* ------------------------------------------------------------ rooms and messages routes
\* 'members.user': req.userId in the Room queries
IsMember(r, u) == \E i \in 1..Len(members[r]) : members[r][i].user = u

RoleOf(r, u) ==
  LET i == CHOOSE i \in 1..Len(members[r]) : members[r][i].user = u
  IN members[r][i].role

\* POST /api/rooms/:id/join by user u
RoomsJoin(u, r) ==
  /\ ~IsMember(r, u)
  /\ members' = [members EXCEPT ![r] = Append(@, [user |-> u, role |-> "member"])]
  /\ roomDocs' = [roomDocs EXCEPT ![r].v = @ + 1]
  /\ lastEmit' = NoEmit
  /\ nInputs' = nInputs + 1
  /\ UNCHANGED <<typingSent, listeners, fetching,
                 connected, rooms, joined, typingAge, nEmits, inflight, sendBuffer, selectedRoom,
                 isTyping, typingTimer, pendingSend, messages, typingUsers, sendResult,
                 stored, msgMeta, directs, httpVars>>

\* POST /api/rooms/:id/leave by user u
RoomsLeave(u, r) ==
  /\ IsMember(r, u)
  /\ RoleOf(r, u) # "admin"
  /\ members' = [members EXCEPT ![r] = SelectSeq(@, LAMBDA m : m.user # u)]
  /\ roomDocs' = [roomDocs EXCEPT ![r].v = @ + 1]
  /\ lastEmit' = NoEmit
  /\ nInputs' = nInputs + 1
  /\ UNCHANGED <<typingSent, listeners, fetching,
                 connected, rooms, joined, typingAge, nEmits, inflight, sendBuffer, selectedRoom,
                 isTyping, typingTimer, pendingSend, messages, typingUsers, sendResult,
                 stored, msgMeta, directs, httpVars>>

\* Mutant: a POST /api/messages that does not look at the members of the room.
PostOutcomeAnyone(u, r, content, saveOk) ==
  IF content = TooLong THEN "invalid"
  ELSE IF content = "" THEN "empty"
  ELSE IF ~saveOk THEN "error"
  ELSE "created"

\* POST /api/messages: the outcome for user u, room r, content; saveOk is
\* whether message.save() succeeds.
PostOutcome(u, r, content, saveOk) ==
  IF content = TooLong THEN "invalid"
  ELSE IF ~IsMember(r, u) THEN "denied"
  ELSE IF content = "" THEN "empty"
  ELSE IF ~saveOk THEN "error"
  ELSE "created"

\* ------------------------------------------------------------ client
\* History: the rooms left with a typing=true after the events evs.
RECURSIVE NoteTyping(_, _)
NoteTyping(set, evs) ==
  IF evs = <<>> THEN set
  ELSE LET ev == Head(evs)
       IN NoteTyping(IF ev.type # "typing" THEN set
                     ELSE IF ev.data.isTyping THEN set \cup {ev.data.roomId}
                     ELSE set \ {ev.data.roomId},
                     Tail(evs))

\* SocketContext: socket.emit of a sequence of events.  A connected socket
\* sends them and the server handles them in order; a disconnected socket
\* keeps them in its send buffer.  The typing events among them are
\* noted in the history typingSent.
ClientEmit(c, evs) ==
  /\ IF connected[c]
     THEN /\ SetServer(HandleAll(Server, c, evs))
          /\ sendBuffer' = sendBuffer
     ELSE /\ SetServer(Server)
          /\ sendBuffer' = [sendBuffer EXCEPT ![c] = @ \o evs]
  /\ typingSent' = [typingSent EXCEPT ![c] = NoteTyping(@, evs)]

\* The typing event ChatRoom sends for room r.
TypingOf(c, r, flag) ==
  TypingEv([roomId |-> r, userId |-> UserOf(c), isTyping |-> flag])

\* Chat.handleSelectRoom: leave the previous room, select and join the new one.
\* The room list holds the rooms the user is a member of.  ChatRoom renders
\* with the new room: its effects fetch the messages of the room and register
\* the listeners again.
HandleSelectRoom(c, r) ==
  /\ IsMember(r, UserOf(c))
  /\ ClientEmit(c, (IF selectedRoom[c] # NoRoom THEN <<LeaveEv(selectedRoom[c])>> ELSE <<>>)
                   \o <<JoinEv(r)>>)
  /\ selectedRoom' = [selectedRoom EXCEPT ![c] = r]
  /\ listeners' = [listeners EXCEPT ![c] = RegisterChatRoom(@, selectedRoom[c], r)]
  /\ fetching' = [fetching EXCEPT ![c] = IF selectedRoom[c] = r THEN @ ELSE @ \cup {r}]
  /\ nInputs' = nInputs + 1
  /\ UNCHANGED <<connected, isTyping, typingTimer, pendingSend, messages, typingUsers,
                 sendResult, dbVars, httpVars>>

\* GET /api/messages/:roomId answers fetchMessages of client c for room r: the
\* messages of the room, oldest first, replace the list; a 404 is logged.
FetchMessages(c, r) ==
  /\ r \in fetching[c]
  /\ fetching' = [fetching EXCEPT ![c] = @ \ {r}]
  /\ messages' = IF IsMember(r, UserOf(c))
                 THEN [messages EXCEPT ![c] = SelectSeq(stored, LAMBDA m : m.roomId = r)]
                 ELSE messages
  /\ lastEmit' = NoEmit
  /\ UNCHANGED <<connected, rooms, joined, typingAge, nEmits, inflight, sendBuffer,
                 selectedRoom, isTyping, typingTimer, pendingSend, typingUsers,
                 sendResult, listeners, typingSent, nInputs, dbVars, httpVars>>

\* ChatRoom.handleTyping, on every change of the input field.
HandleTyping(c) ==
  /\ selectedRoom[c] # NoRoom
  /\ ClientEmit(c, IF ~isTyping[c] THEN <<TypingOf(c, selectedRoom[c], TRUE)>> ELSE <<>>)
  /\ isTyping' = [isTyping EXCEPT ![c] = TRUE]
  /\ typingTimer' = [typingTimer EXCEPT ![c] = [left |-> TTL, room |-> selectedRoom[c]]]
  /\ nInputs' = nInputs + 1
  /\ UNCHANGED <<listeners, fetching, connected, selectedRoom, pendingSend, messages, typingUsers,
                 sendResult, dbVars, httpVars>>

\* The callback of the typing timeout, for the room it was set in.
TypingTimeout(c) ==
  /\ typingTimer[c].left = 0
  /\ ClientEmit(c, <<TypingOf(c, typingTimer[c].room, FALSE)>>)
  /\ isTyping' = [isTyping EXCEPT ![c] = FALSE]
  /\ typingTimer' = [typingTimer EXCEPT ![c] = NoTimer]
  /\ UNCHANGED <<listeners, fetching, connected, selectedRoom, pendingSend, messages, typingUsers,
                 sendResult, nInputs, dbVars, httpVars>>

\* One second passes; a timeout that is due runs first.
Tick ==
  /\ \A c \in Conns : typingTimer[c].left # 0
  /\ \/ \E c \in Conns : typingTimer[c].left > 0
     \/ \E r \in Rooms, u \in Users : typingAge[r][u] # NoAge /\ typingAge[r][u] <= TTL
  /\ typingTimer' = [c \in Conns |->
       IF typingTimer[c].left > 0
       THEN [typingTimer[c] EXCEPT !.left = @ - 1] ELSE typingTimer[c]]
  /\ typingAge' = [r \in Rooms |-> [u \in Users |->
       IF typingAge[r][u] = NoAge \/ typingAge[r][u] > TTL
       THEN typingAge[r][u] ELSE typingAge[r][u] + 1]]
  /\ lastEmit' = NoEmit
  /\ UNCHANGED <<typingSent, listeners, fetching,
                 connected, rooms, joined, nEmits, inflight, sendBuffer, selectedRoom,
                 isTyping, pendingSend, messages, typingUsers, sendResult, nInputs,
                 dbVars, httpVars>>

\* ChatRoom.handleSendMessage up to its await: a non-blank message is posted.
\* A client has one send under way at a time.
HandleSendMessage(c, content) ==
  /\ selectedRoom[c] # NoRoom
  /\ pendingSend[c] = NoSend
  /\ content # ""
  /\ pendingSend' = [pendingSend EXCEPT ![c] =
       [room |-> selectedRoom[c], content |-> content, kind |-> "text",
        status |-> "posting"]]
  /\ nInputs' = nInputs + 1
  /\ lastEmit' = NoEmit
  /\ UNCHANGED <<typingSent, listeners, fetching,
                 connected, rooms, joined, typingAge, nEmits, inflight, sendBuffer,
                 selectedRoom, isTyping, typingTimer, messages, typingUsers, sendResult,
                 dbVars, httpVars>>

\* ChatRoom.uploadFiles up to its first await: the selected files are posted
\* to /api/upload/multiple.
UploadFiles(c) ==
  /\ selectedRoom[c] # NoRoom
  /\ pendingSend[c] = NoSend
  /\ pendingSend' = [pendingSend EXCEPT ![c] =
       [room |-> selectedRoom[c], content |-> FileCaption, kind |-> "file",
        status |-> "uploading"]]
  /\ nInputs' = nInputs + 1
  /\ lastEmit' = NoEmit
  /\ UNCHANGED <<typingSent, listeners, fetching,
                 connected, rooms, joined, typingAge, nEmits, inflight, sendBuffer,
                 selectedRoom, isTyping, typingTimer, messages, typingUsers, sendResult,
                 dbVars, httpVars>>

\* The upload answers; uploadFiles then posts the message, or ends in its catch.
UploadDone(c, uploadOk) ==
  /\ pendingSend[c].status = "uploading"
  /\ pendingSend' = [pendingSend EXCEPT ![c].status =
       IF uploadOk THEN "posting" ELSE "upload failed"]
  /\ lastEmit' = NoEmit
  /\ UNCHANGED <<typingSent, listeners, fetching,
                 connected, rooms, joined, typingAge, nEmits, inflight, sendBuffer,
                 selectedRoom, isTyping, typingTimer, messages, typingUsers, sendResult,
                 nInputs, dbVars, httpVars>>

\* The route POST /api/messages handles the request of client c.
PostMessage(c, saveOk) ==
  /\ pendingSend[c].status = "posting"
  /\ LET out == PostOutcome(UserOf(c), pendingSend[c].room, pendingSend[c].content, saveOk)
     IN /\ pendingSend' = [pendingSend EXCEPT ![c].status = out]
        /\ stored' = IF out = "created"
                     THEN Append(stored, [roomId |-> pendingSend[c].room,
                                          sender |-> UserOf(c),
                                          content |-> pendingSend[c].content])
                     ELSE stored
        /\ msgMeta' = IF out = "created" THEN Append(msgMeta, NewMeta) ELSE msgMeta
        /\ roomDocs' = IF out = "created"
                       THEN [roomDocs EXCEPT ![pendingSend[c].room].lastMessage =
                                               Len(stored) + 1]
                       ELSE roomDocs
  /\ lastEmit' = NoEmit
  /\ UNCHANGED <<typingSent, listeners, fetching,
                 connected, rooms, joined, typingAge, nEmits, inflight, sendBuffer,
                 selectedRoom, isTyping, typingTimer, messages, typingUsers, sendResult,
                 nInputs, members, directs, httpVars>>

\* Mutant: a send that does not wait for the outcome of the POST.
PostedAlways(status) == TRUE

\* The await of axios.post inside the try: it returns for a 2xx response and
\* throws into the catch for any other.
Posted(status) == status = "created"

\* handleSendMessage and uploadFiles after the await: on success emit
\* send_message and clear the typing indicator (only handleSendMessage resets
\* isTyping); on failure log the error.
SendContinue(c) ==
  /\ pendingSend[c].status \notin {"none", "uploading", "posting"}
  /\ IF Posted(pendingSend[c].status)
     THEN /\ ClientEmit(c, <<MessageEv([roomId |-> pendingSend[c].room,
                                        sender |-> UserOf(c),
                                        content |-> pendingSend[c].content]),
                             TypingOf(c, pendingSend[c].room, FALSE)>>)
          /\ isTyping' = IF pendingSend[c].kind = "text"
                          THEN [isTyping EXCEPT ![c] = FALSE] ELSE isTyping
          /\ sendResult' = [sendResult EXCEPT ![c] = "sent"]
     ELSE /\ ClientEmit(c, <<>>)
          /\ isTyping' = isTyping
          /\ sendResult' = [sendResult EXCEPT ![c] = "error"]
  /\ pendingSend' = [pendingSend EXCEPT ![c] = NoSend]
  /\ UNCHANGED <<listeners, fetching, connected, selectedRoom, typingTimer, messages,
                 typingUsers, nInputs, dbVars, httpVars>>

\* ------------------------------------------------------------ rooms routes, await by await
\* An HTTP handler runs from one await to the next as one step; between its
\* steps the handlers of other requests run.  A request waits in a slot from
\* the answer to its first query until its last database operation.

\* The body of a response and the request it answers.
Response(status, message, req) == [status |-> status, message |-> message, request |-> req]

\* The steps of the routes leave the sockets and the clients alone.
HttpStep ==
  /\ lastEmit' = NoEmit
  /\ UNCHANGED <<connected, rooms, joined, typingAge, nEmits, inflight, sendBuffer,
                 selectedRoom, isTyping, typingTimer, pendingSend, messages,
                 typingUsers, sendResult, listeners, fetching, typingSent>>

\* A request arrives and takes a free slot.
Accept(q) ==
  /\ requests[q] = NoRequest
  /\ nInputs' = nInputs + 1

\* The first step of a request ends it with a response.
Refuse(q, status, message, req) ==
  /\ response' = Response(status, message, req)
  /\ requests' = requests
  /\ UNCHANGED dbVars

\* The first step of a request leaves it waiting for its database operation.
Await(q, req) ==
  /\ response' = NoResponse
  /\ requests' = [requests EXCEPT ![q] = req]
  /\ UNCHANGED dbVars

\* Room.findOne({'members.user': u, 'members.role': roles}): MongoDB matches
\* each condition on an array path against any element of the array, so the
\* user and the role may be found in different entries.
QueryUserAndRole(r, u, roles) ==
  /\ \E i \in 1..Len(members[r]) : members[r][i].user = u
  /\ \E j \in 1..Len(members[r]) : members[r][j].role \in roles

\* Mutant: a find that finds nobody.
FindMemberNone(list, u) == [user |-> Undefined, role |-> Undefined]

\* Array.find on the member list a handler has read.
FindMember(list, u) ==
  IF \E i \in 1..Len(list) : list[i].user = u
  THEN list[CHOOSE i \in 1..Len(list) :
              list[i].user = u /\ \A j \in 1..(i - 1) : list[j].user # u]
  ELSE [user |-> Undefined, role |-> Undefined]

\* POST /api/rooms/:id/join up to room.save()
JoinRead(q, u, r) ==
  /\ Accept(q)
  /\ LET req == [route |-> "join", user |-> u, room |-> r, target |-> u,
                 op |-> "push", doc |-> members[r], v |-> roomDocs[r].v]
     IN IF FindMember(members[r], u).user = u
        THEN Refuse(q, 400, "Already a member of this room", req)
        ELSE Await(q, req)
  /\ HttpStep

\* POST /api/rooms/:id/leave up to room.save()
LeaveRead(q, u, r) ==
  /\ Accept(q)
  /\ LET req == [route |-> "leave", user |-> u, room |-> r, target |-> u,
                 op |-> "set", doc |-> SelectSeq(members[r], LAMBDA m : m.user # u),
                 v |-> roomDocs[r].v]
     IN IF ~IsMember(r, u)
        THEN Refuse(q, 404, "Room not found", req)
        ELSE IF FindMember(members[r], u).role = "admin"
        THEN Refuse(q, 400, "Admin cannot leave room. Transfer ownership first.", req)
        ELSE Await(q, req)
  /\ HttpStep

\* POST /api/rooms/:id/members up to room.save(); the user to add exists.
AddMemberRead(q, u, r, t) ==
  /\ Accept(q)
  /\ LET req == [route |-> "addMember", user |-> u, room |-> r, target |-> t,
                 op |-> "push", doc |-> members[r], v |-> roomDocs[r].v]
     IN IF ~QueryUserAndRole(r, u, {"admin", "moderator"})
        THEN Refuse(q, 404, "Room not found or insufficient permissions", req)
        ELSE IF FindMember(members[r], t).user = t
        THEN Refuse(q, 400, "User is already a member", req)
        ELSE Await(q, req)
  /\ HttpStep

\* DELETE /api/rooms/:id/members/:userId up to room.save()
RemoveMemberRead(q, u, r, t) ==
  /\ Accept(q)
  /\ LET req == [route |-> "removeMember", user |-> u, room |-> r, target |-> t,
                 op |-> "set", doc |-> SelectSeq(members[r], LAMBDA m : m.user # t),
                 v |-> roomDocs[r].v]
     IN IF ~QueryUserAndRole(r, u, {"admin", "moderator"})
        THEN Refuse(q, 404, "Room not found or insufficient permissions", req)
        ELSE IF FindMember(members[r], t).role = "admin"
        THEN Refuse(q, 400, "Cannot remove admin from room", req)
        ELSE Await(q, req)
  /\ HttpStep

\* room.save() of a join, leave, add-member or remove-member request.  Mongoose
\* sends the change it tracked: a push becomes a $push onto the stored array
\* and increments __v; an assigned array becomes a $set of the whole array
\* under the condition that __v is still the one read, and fails with a
\* VersionError (500) when it is not.
RoomSave(q) ==
  /\ requests[q].route \in {"join", "leave", "addMember", "removeMember"}
  /\ LET req == requests[q]
         r == req.room
     IN IF req.op = "push"
        THEN /\ members' = [members EXCEPT
                  ![r] = Append(@, [user |-> req.target, role |-> "member"])]
             /\ roomDocs' = [roomDocs EXCEPT ![r].v = @ + 1]
             /\ response' = Response(200, "ok", req)
        ELSE IF roomDocs[r].v = req.v
        THEN /\ members' = [members EXCEPT ![r] = req.doc]
             /\ roomDocs' = [roomDocs EXCEPT ![r].v = @ + 1]
             /\ response' = Response(200, "ok", req)
        ELSE /\ UNCHANGED <<members, roomDocs>>
             /\ response' = Response(500, "Server error", req)
  /\ requests' = [requests EXCEPT ![q] = NoRequest]
  /\ HttpStep
  /\ UNCHANGED <<stored, msgMeta, directs, nInputs>>

\* PUT /api/rooms/:id up to Room.findByIdAndUpdate
PutRead(q, u, r, name) ==
  /\ Accept(q)
  /\ LET req == [route |-> "put", user |-> u, room |-> r, name |-> name]
     IN IF ~QueryUserAndRole(r, u, {"admin"})
        THEN Refuse(q, 404, "Room not found or insufficient permissions", req)
        ELSE Await(q, req)
  /\ HttpStep

\* Room.findByIdAndUpdate(id, {name}) of a PUT request
PutUpdate(q) ==
  /\ requests[q].route = "put"
  /\ roomDocs' = [roomDocs EXCEPT ![requests[q].room].name = requests[q].name]
  /\ response' = Response(200, "Room updated successfully", requests[q])
  /\ requests' = [requests EXCEPT ![q] = NoRequest]
  /\ HttpStep
  /\ UNCHANGED <<members, stored, msgMeta, directs, nInputs>>

\* The active rooms of type direct that have both users among their members.
DirectRoomsOf(u, t) ==
  {i \in 1..Len(directs) :
     /\ \E j \in 1..Len(directs[i]) : directs[i][j].user = u
     /\ \E j \in 1..Len(directs[i]) : directs[i][j].user = t}

\* POST /api/rooms/direct up to room.save(): the target user exists; findOne
\* returns the first room that matches.
DirectRead(q, u, t) ==
  /\ Accept(q)
  /\ LET req == [route |-> "direct", user |-> u, target |-> t, room |-> 0]
         found == DirectRoomsOf(u, t)
     IN IF found # {}
        THEN LET i == CHOOSE i \in found : \A j \in found : i <= j
             IN Refuse(q, 200, "Direct room found", [req EXCEPT !.room = i])
        ELSE Await(q, req)
  /\ HttpStep

\* room.save() of a POST /api/rooms/direct request: a new room of two members.
DirectSave(q) ==
  /\ requests[q].route = "direct"
  /\ directs' = Append(directs, <<[user |-> requests[q].user, role |-> "member"],
                                  [user |-> requests[q].target, role |-> "member"]>>)
  /\ response' = Response(201, "Direct room created successfully",
                          [requests[q] EXCEPT !.room = Len(directs) + 1])
  /\ requests' = [requests EXCEPT ![q] = NoRequest]
  /\ HttpStep
  /\ UNCHANGED <<members, stored, msgMeta, roomDocs, nInputs>>

\* ------------------------------------------------------------ messages routes, await by await
\* The messages of room r a query with isDeleted: false finds, oldest first,
\* as positions in the collection.
RECURSIVE VisibleFrom(_, _)
VisibleFrom(r, i) ==
  IF i > Len(stored) THEN <<>>
  ELSE IF stored[i].roomId = r /\ ~msgMeta[i].isDeleted
       THEN <<i>> \o VisibleFrom(r, i + 1)
       ELSE VisibleFrom(r, i + 1)

\* GET /api/messages/:roomId by user u: the membership query and the message
\* query, taken at one instant.
MessagesGet(u, r) ==
  /\ response' =
       LET req == [route |-> "get", user |-> u, room |-> r]
       IN IF ~IsMember(r, u)
          THEN Response(404, "Room not found or access denied", req)
          ELSE [Response(200, "ok", req) EXCEPT !.message = VisibleFrom(r, 1)]
  /\ HttpStep
  /\ UNCHANGED <<dbVars, requests, nInputs>>

\* GET /api/messages/search/:roomId by user u with query text: $regex is
\* taken as a match of the whole content.
MessagesSearch(u, r, text) ==
  /\ response' =
       LET req == [route |-> "search", user |-> u, room |-> r]
       IN IF ~IsMember(r, u)
          THEN Response(404, "Room not found or access denied", req)
          ELSE [Response(200, "ok", req) EXCEPT
                  !.message = SelectSeq(VisibleFrom(r, 1),
                                        LAMBDA i : stored[i].content = text)]
  /\ HttpStep
  /\ UNCHANGED <<dbVars, requests, nInputs>>

\* POST /api/messages up to message.save()
PostRead(q, u, r, content) ==
  /\ Accept(q)
  /\ LET req == [route |-> "post", user |-> u, room |-> r, content |-> content,
                 step |-> "save", id |-> 0]
         out == PostOutcome(u, r, content, TRUE)
     IN IF out = "invalid" THEN Refuse(q, 400, "errors", req)
        ELSE IF out = "denied"
        THEN Refuse(q, 404, "Room not found or access denied", req)
        ELSE IF out = "empty"
        THEN Refuse(q, 400, "Message content or attachments required", req)
        ELSE Await(q, req)
  /\ HttpStep

\* message.save() of a POST request: the message is in the collection; the
\* handler goes on to Room.findByIdAndUpdate.  A save that fails ends the
\* request with 500.
PostSave(q, saveOk) ==
  /\ requests[q].route = "post"
  /\ requests[q].step = "save"
  /\ IF saveOk
     THEN /\ stored' = Append(stored, [roomId |-> requests[q].room,
                                       sender |-> requests[q].user,
                                       content |-> requests[q].content])
          /\ msgMeta' = Append(msgMeta, NewMeta)
          /\ requests' = [requests EXCEPT ![q].step = "update",
                                          ![q].id = Len(stored) + 1]
          /\ response' = NoResponse
     ELSE /\ UNCHANGED <<stored, msgMeta>>
          /\ requests' = [requests EXCEPT ![q] = NoRequest]
          /\ response' = Response(500, "Server error", requests[q])
  /\ HttpStep
  /\ UNCHANGED <<members, roomDocs, directs, nInputs>>

\* Room.findByIdAndUpdate(roomId, {lastMessage: message._id}) of a POST
\* request, and its 201 response.
PostUpdate(q) ==
  /\ requests[q].route = "post"
  /\ requests[q].step = "update"
  /\ roomDocs' = [roomDocs EXCEPT ![requests[q].room].lastMessage = requests[q].id]
  /\ response' = Response(201, "Message sent successfully", requests[q])
  /\ requests' = [requests EXCEPT ![q] = NoRequest]
  /\ HttpStep
  /\ UNCHANGED <<members, stored, msgMeta, directs, nInputs>>

\* Message.findOne({_id, sender: req.userId, isDeleted: false})
FindOwnMessage(i, u) ==
  i \in 1..Len(stored) /\ stored[i].sender = u /\ ~msgMeta[i].isDeleted

\* Message.findOne({_id, isDeleted: false})
FindMessage(i) == i \in 1..Len(stored) /\ ~msgMeta[i].isDeleted

\* PUT /api/messages/:id up to message.save(); the messages are less than 24
\* hours old.
EditRead(q, u, i) ==
  /\ Accept(q)
  /\ LET req == [route |-> "edit", user |-> u, msg |-> i, content |-> EditedContent]
     IN IF ~FindOwnMessage(i, u)
        THEN Refuse(q, 404, "Message not found or access denied", req)
        ELSE Await(q, req)
  /\ HttpStep

\* DELETE /api/messages/:id up to message.save()
DeleteRead(q, u, i) ==
  /\ Accept(q)
  /\ LET req == [route |-> "delete", user |-> u, msg |-> i]
     IN IF ~FindOwnMessage(i, u)
        THEN Refuse(q, 404, "Message not found or access denied", req)
        ELSE Await(q, req)
  /\ HttpStep

\* POST /api/messages/:id/reactions up to message.save(); one emoji.
ReactRead(q, u, i) ==
  /\ Accept(q)
  /\ LET req == [route |-> "react", user |-> u, msg |-> i]
     IN IF ~FindMessage(i)
        THEN Refuse(q, 404, "Message not found", req)
        ELSE IF u \in msgMeta[i].reactions
        THEN Refuse(q, 400, "Already reacted with this emoji", req)
        ELSE Await(q, req)
  /\ HttpStep

\* DELETE /api/messages/:id/reactions/:emoji up to message.save()
UnreactRead(q, u, i) ==
  /\ Accept(q)
  /\ LET req == [route |-> "unreact", user |-> u, msg |-> i,
                 doc |-> IF FindMessage(i) THEN msgMeta[i].reactions \ {u} ELSE {},
                 v |-> IF FindMessage(i) THEN msgMeta[i].v ELSE 0]
     IN IF ~FindMessage(i)
        THEN Refuse(q, 404, "Message not found", req)
        ELSE Await(q, req)
  /\ HttpStep

\* message.save() of an edit, delete or reaction request.  Mongoose sends the
\* fields the handler assigned as a $set on the stored document, whatever has
\* been written to it since it was read; a pushed reaction is a $push that
\* increments __v, and an assigned reactions array is a $set under the
\* condition that __v is the one read (VersionError, 500, otherwise).
MessageSave(q) ==
  /\ requests[q].route \in {"edit", "delete", "react", "unreact"}
  /\ LET req == requests[q]
         i == req.msg
     IN CASE req.route = "edit" ->
               /\ stored' = [stored EXCEPT ![i].content = req.content]
               /\ msgMeta' = msgMeta
               /\ response' = Response(200, "Message updated successfully", req)
          [] req.route = "delete" ->
               /\ stored' = [stored EXCEPT ![i].content = DeletedContent]
               /\ msgMeta' = [msgMeta EXCEPT ![i].isDeleted = TRUE]
               /\ response' = Response(200, "Message deleted successfully", req)
          [] req.route = "react" ->
               /\ stored' = stored
               /\ msgMeta' = [msgMeta EXCEPT ![i].reactions = @ \cup {req.user},
                                             ![i].v = @ + 1]
               /\ response' = Response(200, "Reaction added successfully", req)
          [] req.route = "unreact" ->
               IF msgMeta[i].v = req.v
               THEN /\ stored' = stored
                    /\ msgMeta' = [msgMeta EXCEPT ![i].reactions = req.doc,
                                                  ![i].v = @ + 1]
                    /\ response' = Response(200, "Reaction removed successfully", req)
               ELSE /\ UNCHANGED <<stored, msgMeta>>
                    /\ response' = Response(500, "Server error", req)
  /\ requests' = [requests EXCEPT ![q] = NoRequest]
  /\ HttpStep
  /\ UNCHANGED <<members, roomDocs, directs, nInputs>>

\* The server with clients that emit any event with any payload.
Next ==
  \/ \E c \in Conns : Connect(c)
  \/ \E c \in Conns : Disconnect(c)
  \/ \E c \in Conns, r \in Rooms : JoinRoom(c, r)
  \/ \E c \in Conns, r \in Rooms : LeaveRoom(c, r)
  \/ \E c \in Conns, d \in MessageData : SendMessage(c, d)
  \/ \E c \in Conns, event \in {"send_message", "typing"} : EmitWithoutPayload(c, event)
  \/ \E c \in Conns, d \in TypingData : Typing(c, d)
  \/ \E p \in inflight : Deliver(p)

Spec == Init /\ [][Next]_vars

\* The server with the clients of this repository; the answers to their
\* fetchMessages stay out.
NextClient ==
  \/ \E c \in Conns : Connect(c)
  \/ \E c \in Conns : Disconnect(c)
  \/ nInputs < MaxInputs /\ \E c \in Conns, r \in Rooms : HandleSelectRoom(c, r)
  \/ nInputs < MaxInputs /\ \E c \in Conns : HandleTyping(c)
  \/ \E c \in Conns : TypingTimeout(c)
  \/ Tick
  \/ nInputs < MaxInputs
       /\ \E c \in Conns, content \in Contents \cup {TooLong} : HandleSendMessage(c, content)
  \/ nInputs < MaxInputs /\ \E c \in Conns : UploadFiles(c)
  \/ \E c \in Conns, uploadOk \in BOOLEAN : UploadDone(c, uploadOk)
  \/ \E c \in Conns, saveOk \in BOOLEAN : PostMessage(c, saveOk)
  \/ \E c \in Conns : SendContinue(c)
  \/ \E p \in inflight : Deliver(p)
  \/ nInputs < MaxInputs /\ \E u \in Users, r \in Rooms : RoomsJoin(u, r)
  \/ nInputs < MaxInputs /\ \E u \in Users, r \in Rooms : RoomsLeave(u, r)

SpecClient == Init /\ [][NextClient]_vars

\* The server with the clients of this repository exchanging messages while
\* their sockets stay connected: rooms selected, their messages fetched,
\* messages sent by the authors and received.
NextChat ==
  \/ nInputs < MaxChatInputs /\ \E c \in Conns, r \in Rooms : HandleSelectRoom(c, r)
  \/ \E c \in Conns, r \in Rooms : FetchMessages(c, r)
  \/ nInputs < MaxChatInputs
       /\ \E c \in Authors, content \in Contents : HandleSendMessage(c, content)
  \/ \E c \in Conns, saveOk \in BOOLEAN : PostMessage(c, saveOk)
  \/ \E c \in Conns : SendContinue(c)
  \/ \E p \in inflight : Deliver(p)

SpecChat == Init /\ [][NextChat]_vars

\* The server with the clients of this repository while one user writes:
\* the clients select rooms, the user types and sends, the typing timeout
\* runs and the others receive; the sockets stay connected.
NextTyping ==
  \/ nInputs < MaxTypingInputs /\ \E c \in Conns, r \in Rooms : HandleSelectRoom(c, r)
  \/ nInputs < MaxTypingInputs /\ \E c \in Typists : HandleTyping(c)
  \/ \E c \in Typists : TypingTimeout(c)
  \/ Tick
  \/ nInputs < MaxTypingInputs
       /\ \E c \in Typists, content \in Contents : HandleSendMessage(c, content)
  \/ \E c \in Typists, saveOk \in BOOLEAN : PostMessage(c, saveOk)
  \/ \E c \in Typists : SendContinue(c)
  \/ \E p \in inflight : Deliver(p)

SpecTyping == Init /\ [][NextTyping]_vars

\* The rooms routes serving requests of any account, two at a time.
NextRooms ==
  \/ nInputs < MaxRoomRequests
       /\ \E q \in Slots, u \in Accounts, r \in Rooms : JoinRead(q, u, r)
  \/ nInputs < MaxRoomRequests
       /\ \E q \in Slots, u \in Accounts, r \in Rooms : LeaveRead(q, u, r)
  \/ nInputs < MaxRoomRequests
       /\ \E q \in Slots, u \in Accounts, r \in Rooms, t \in Accounts : AddMemberRead(q, u, r, t)
  \/ nInputs < MaxRoomRequests
       /\ \E q \in Slots, u \in Accounts, r \in Rooms, t \in Accounts : RemoveMemberRead(q, u, r, t)
  \/ \E q \in Slots : RoomSave(q)
  \/ nInputs < MaxRoomRequests
       /\ \E q \in Slots, u \in Accounts, r \in Rooms : PutRead(q, u, r, "renamed")
  \/ \E q \in Slots : PutUpdate(q)
  \/ nInputs < MaxRoomRequests
       /\ \E q \in Slots, u \in Accounts, t \in Accounts : DirectRead(q, u, t)
  \/ \E q \in Slots : DirectSave(q)

SpecRooms == Init /\ [][NextRooms]_vars

\* The ids requests name: those of the messages stored and one of no message.
MessageIds == 1..(Len(stored) + 1)

\* The messages routes serving requests of the users, two at a time, while
\* the users join and leave the rooms.
NextMessages ==
  \/ \E u \in Users, r \in Rooms : MessagesGet(u, r)
  \/ \E u \in Users, r \in Rooms, text \in Contents \cup {DeletedContent} :
       MessagesSearch(u, r, text)
  \/ nInputs < MaxMessageRequests
       /\ \E q \in Slots, u \in Users, r \in Rooms, content \in Contents \cup {"", TooLong} :
            PostRead(q, u, r, content)
  \/ \E q \in Slots, saveOk \in BOOLEAN : PostSave(q, saveOk)
  \/ \E q \in Slots : PostUpdate(q)
  \/ nInputs < MaxMessageRequests
       /\ \E q \in Slots, u \in Users, i \in MessageIds : EditRead(q, u, i)
  \/ nInputs < MaxMessageRequests
       /\ \E q \in Slots, u \in Users, i \in MessageIds : DeleteRead(q, u, i)
  \/ nInputs < MaxMessageRequests
       /\ \E q \in Slots, u \in Users, i \in MessageIds : ReactRead(q, u, i)
  \/ nInputs < MaxMessageRequests
       /\ \E q \in Slots, u \in Users, i \in MessageIds : UnreactRead(q, u, i)
  \/ \E q \in Slots : MessageSave(q)
  \/ nInputs < MaxMessageRequests /\ \E u \in Users, r \in Rooms : RoomsJoin(u, r)
  \/ nInputs < MaxMessageRequests /\ \E u \in Users, r \in Rooms : RoomsLeave(u, r)

SpecMessages == Init /\ [][NextMessages]_vars

\* ------------------------------------------------------------ claims
Range(seq) == {seq[i] : i \in 1..Len(seq)}
Emitted(event) == lastEmit.id # 0 /\ lastEmit.event = event
PacketsOf(id) == {p \in inflight : p.id = id}
TypingIds(list) == {list[i].userId : i \in 1..Len(list)}

\* C1: a send_message from a subscriber A of room R is delivered as
\* receive_message to exactly the subscribers of R other than A, never to A.
C1_MessageToOthersOnly ==
  (Emitted("receive_message") /\ lastEmit.from \in rooms[lastEmit.room]) =>
    /\ lastEmit.to = rooms[lastEmit.room] \ {lastEmit.from}
    /\ lastEmit.from \notin lastEmit.to
    /\ {p.to : p \in PacketsOf(lastEmit.id)} = lastEmit.to

C1_Witness ==
  /\ Emitted("receive_message")
  /\ rooms[lastEmit.room] = Conns
  /\ Cardinality(lastEmit.to) = 2
  /\ Cardinality(PacketsOf(lastEmit.id)) = 2

\* C2 (as claimed): a send_message for room R from a connection that is not
\* subscribed to R is rejected and reaches no connection.
C2_NotMemberRejected ==
  (Emitted("receive_message") /\ lastEmit.from \notin rooms[lastEmit.room]) =>
    lastEmit.to = {}

\* C3: a connection is subscribed to a room exactly when its most recent
\* join_room for it has not been followed by its leave_room or its disconnect.
C3_SubscribedIffJoined ==
  \A r \in Rooms, c \in Conns : c \in rooms[r] <=> c \in joined[r]

C3_Witness ==
  \E c, d, e \in Conns :
    /\ c \in rooms["r1"] /\ c \notin rooms["r2"]
    /\ connected[d] /\ d \notin rooms["r1"] /\ d \in rooms["r2"]
    /\ ~connected[e]

\* C4: a connection whose disconnect has completed is in no room, has no
\* packet in flight, and is in the audience of no broadcast issued afterwards.
C4_DisconnectedGetsNothing ==
  \A c \in Conns : ~connected[c] =>
    /\ \A r \in Rooms : c \notin rooms[r]
    /\ \A p \in inflight : p.to # c
    /\ lastEmit.id # 0 => c \notin lastEmit.to

C4_Witness ==
  \E c \in Conns :
    /\ ~connected[c]
    /\ lastEmit.id # 0
    /\ lastEmit.to = Conns \ {c, lastEmit.from}
    /\ lastEmit.to # {}

\* Every message buffered, fanned out, in flight or received was stored.
C5_Persisted ==
  /\ Emitted("receive_message") => lastEmit.data \in Range(stored)
  /\ \A p \in inflight : p.event = "receive_message" => p.data \in Range(stored)
  /\ \A c \in Conns : Range(messages[c]) \subseteq Range(stored)
  /\ \A c \in Conns : \A ev \in Range(sendBuffer[c]) :
       ev.type = "send_message" => ev.data \in Range(stored)

\* A send whose POST failed ends with the error logged and nothing emitted.
C5_AbortOnFailure ==
  \A c \in Conns :
    (pendingSend[c].status \in {"upload failed", "invalid", "denied", "empty", "error"}
       /\ pendingSend'[c] = NoSend) =>
      /\ sendResult'[c] = "error"
      /\ nEmits' = nEmits
      /\ inflight' = inflight
      /\ sendBuffer' = sendBuffer

C6_SubscribersAreMembers ==
  \A r \in Rooms, c \in Conns : c \in rooms[r] => IsMember(r, UserOf(c))

\* C7 (as claimed): the user identity a delivered event carries is the identity
\* of the connection it came from, whatever the payload said.
C7_IdentityOfConnection ==
  /\ Emitted("receive_message") => lastEmit.data.sender = UserOf(lastEmit.from)
  /\ Emitted("user_typing") => lastEmit.data.userId = UserOf(lastEmit.from)

C9_TypingShown ==
  [][\A p \in inflight :
       (/\ inflight' = inflight \ {p}
        /\ connected' = connected
        /\ p.event = "user_typing"
        /\ p.data.isTyping
        /\ selectedRoom[p.to] = p.room)
       => p.data.userId \in TypingIds(typingUsers'[p.to])]_vars

RECURSIVE EmitsFrom(_)
EmitsFrom(e) == IF e.id = 0 THEN {} ELSE {e} \cup EmitsFrom(e.prev)
StepEmits == EmitsFrom(lastEmit)

\* The packet the listeners of an open ChatRoom handled in the last step.
HandledPacket == IF "handled" \in DOMAIN lastEmit THEN {lastEmit.handled} ELSE {}

C12_JoinLeaveIdempotent ==
  \A c \in Conns, r \in Rooms :
    /\ c \in rooms[r] =>
         LET s == Handle(Server, c, JoinEv(r))
         IN /\ s.rooms = rooms
            /\ Cardinality(s.rooms[r]) = Cardinality(rooms[r])
            /\ s.joined = joined
            /\ s.inflight = inflight
            /\ s.nEmits = nEmits
            /\ \A d \in Conns : SocketTo(s.rooms, d, r) = SocketTo(rooms, d, r)
    /\ c \notin rooms[r] =>
         LET s == Handle(Server, c, LeaveEv(r))
         IN /\ s.rooms = rooms
            /\ s.joined = joined
            /\ s.inflight = inflight
            /\ s.nEmits = nEmits

C12_Witness ==
  \E c, d, e \in Conns, r \in Rooms :
    /\ c # d
    /\ {c, d} \subseteq rooms[r]
    /\ Handle(Handle(Server, c, JoinEv(r)), c, JoinEv(r)).rooms[r] = rooms[r]
    /\ connected[e]
    /\ e \notin rooms[r]
    /\ Handle(Server, e, LeaveEv(r)).rooms = rooms
    /\ \E p \in inflight : p.room = r /\ p.to = d

\* A broadcast of receive_message leaves one packet, with the content and the
\* sender of the message sent, for every other subscriber and none for the
\* sender.
C13_OnePacketEach ==
  \A e \in StepEmits :
    e.event = "receive_message" =>
      /\ \A t \in e.subs \ {e.from} :
           /\ Cardinality({p \in inflight : p.id = e.id /\ p.to = t}) = 1
           /\ \A p \in inflight : (p.id = e.id /\ p.to = t) =>
                /\ p.event = "receive_message"
                /\ p.data.content = e.input.content
                /\ p.data.sender = UserOf(e.from)
      /\ \A p \in inflight : p.id = e.id => p.to # e.from

\* A receive_message handled by a client is appended once to its list when
\* the room of the message is open, and not at all when another room is.
C13_AppendedOnce ==
  \A p \in inflight :
    (lastEmit' = Handled(p) /\ p.event = "receive_message") =>
      messages'[p.to] = IF selectedRoom[p.to] = p.room
                        THEN Append(messages[p.to], p.data)
                        ELSE messages[p.to]

\* C13: for each message sent to a room every other subscribed connection is
\* sent exactly one receive_message with the content and the sender, and the
\* client that receives it appends it exactly once to its message list, also
\* after the ChatRoom listeners were registered again on a change of room.
C13_ExactlyOnce == [](C13_OnePacketEach) /\ [][C13_AppendedOnce]_vars

C13_Witness ==
  \E p \in HandledPacket :
    /\ p.event = "receive_message"
    /\ selectedRoom[p.to] = p.room
    /\ listeners[p.to] = <<ChatRoomListener(p.room)>>
    /\ messages[p.to] = <<p.data>>
    /\ p.data.sender # UserOf(p.to)
    /\ fetching[p.to] = {}
    /\ p.id < nEmits

\* The close of one connection discards its own packets only: the packets of
\* the other connections stay in flight and no broadcast is undone or issued.
C14_CloseKeepsOthers ==
  \A c \in Conns :
    (connected[c] /\ connected' = [connected EXCEPT ![c] = FALSE]) =>
      /\ {p \in inflight' : p.to # c} = {p \in inflight : p.to # c}
      /\ nEmits' = nEmits

\* A message reaches every subscriber that is still connected, whoever else
\* has closed; the server sends nothing but receive_message and user_typing,
\* and nothing at all to the sender or for an empty audience.
C14_ServedWithoutError ==
  /\ \A p \in inflight : p.event \in {"receive_message", "user_typing"}
  /\ Emitted("receive_message") =>
       /\ {p.to : p \in PacketsOf(lastEmit.id)} = joined[lastEmit.room] \ {lastEmit.from}
       /\ \A p \in inflight : p.to = lastEmit.from => p.id # lastEmit.id
       /\ joined[lastEmit.room] \subseteq {lastEmit.from} => PacketsOf(lastEmit.id) = {}

\* C14: delivery is fire-and-forget per recipient: a recipient whose channel
\* is closed does not keep the message from the other subscribers, and neither
\* that nor an empty audience is answered with an error to the sender.
C14_FireAndForget == [](C14_ServedWithoutError) /\ [][C14_CloseKeepsOthers]_vars

C14_Witness ==
  \E b \in Conns :
    /\ ~connected[b]
    /\ Emitted("receive_message")
    /\ lastEmit.from \in rooms[lastEmit.room]
    /\ b # lastEmit.from
    /\ lastEmit.to = Conns \ {b, lastEmit.from}
    /\ {p.to : p \in PacketsOf(lastEmit.id)} = lastEmit.to

\* The rooms a connection is subscribed to.
RoomsOf(rms, c) == {r \in Rooms : c \in rms[r]}

\* The events of a connection had an effect only while it was active, after
\* the server had authenticated it.
C15_ActiveAuthenticated ==
  /\ \A c \in Conns : RoomsOf(rooms, c) # {} => (connected[c] /\ SocketUser(c) # Undefined)
  /\ lastEmit.id # 0 => (connected[lastEmit.from] /\ SocketUser(lastEmit.from) # Undefined)

\* Nothing changes the rooms of a closed connection or sends it a packet.
C15_ClosedIgnored ==
  \A c \in Conns :
    (~connected[c] /\ ~connected'[c]) =>
      /\ RoomsOf(rooms', c) = RoomsOf(rooms, c)
      /\ {p \in inflight' : p.to = c} = {}

\* C15 (as claimed): a connection becomes active only after it was
\* authenticated; join, leave, message and typing events have an effect only
\* when an active connection issues them, and an event of a connection that is
\* closing or closed changes no room and no delivery.
C15_Lifecycle == [](C15_ActiveAuthenticated) /\ [][C15_ClosedIgnored]_vars

\* A step changes the subscriptions of one connection at most, and the close
\* of a connection only its own.
C16_OthersKeepRooms ==
  /\ \E c \in Conns : \A d \in Conns \ {c} : RoomsOf(rooms', d) = RoomsOf(rooms, d)
  /\ \A c \in Conns :
       (connected[c] /\ ~connected'[c]) =>
         \A d \in Conns \ {c} : RoomsOf(rooms', d) = RoomsOf(rooms, d)

\* A message to a room has a packet for every other connection that joined
\* the room and has neither left it nor disconnected.
C16_StillDelivered ==
  Emitted("receive_message") =>
    \A d \in joined[lastEmit.room] \ {lastEmit.from} :
      \E p \in inflight : p.id = lastEmit.id /\ p.to = d /\ p.data = lastEmit.input

\* C16 (as claimed): the join, leave, failure or disconnect of one connection
\* leaves the room subscriptions of every other connection unchanged, and a
\* later message to a room is still delivered to the other connections
\* subscribed to it.
C16_Frame == [][C16_OthersKeepRooms]_vars /\ [](C16_StillDelivered)

\* C17: once the server has handled leave_room(R) of a connection, no message
\* or typing broadcast for R issued after it has the connection in its audience
\* or a packet for it, until the connection joins R again.
C17_LeftGetsNothing ==
  \A e \in StepEmits : \A c \in Conns :
    c \notin joined[e.room] =>
      /\ c \notin e.to
      /\ \A p \in inflight : p.id = e.id => p.to # c

C17_Witness ==
  \E e \in StepEmits, c \in Conns :
    /\ e.event = "receive_message"
    /\ connected[c]
    /\ c # e.from
    /\ selectedRoom[c] # e.room
    /\ listeners[c] = <<ChatRoomListener(selectedRoom[c])>>
    /\ c \notin rooms[e.room]
    /\ c \in rooms[selectedRoom[c]]
    /\ e.from \in rooms[e.room]

\* C18 (as claimed): when a send of a client has succeeded, the message is in
\* the message list the client displays, without any receive_message for it
\* (stated for a client with no fetchMessages under way, whose answer could
\* still bring the message).
C18_SenderShowsOwn ==
  [][\A c \in Conns :
       (pendingSend[c].status = "created" /\ pendingSend'[c] = NoSend
          /\ fetching[c] = {}) =>
         \E i \in 1..Len(messages'[c]) :
           /\ messages'[c][i].roomId = pendingSend[c].room
           /\ messages'[c][i].sender = UserOf(c)
           /\ messages'[c][i].content = pendingSend[c].content]_vars

\* C19: however the close of a connection and a broadcast that targets it
\* are ordered, nothing is queued for a connection once it is closed: every
\* packet in flight is addressed to an open connection (a closed one keeps no
\* queue), the audience of a broadcast holds open connections only, and the
\* process that issued the broadcast is still serving its sender.
C19_CloseAndEnqueueAgree ==
  /\ \A p \in inflight : connected[p.to]
  /\ lastEmit.id # 0 =>
       /\ \A t \in lastEmit.to : connected[t]
       /\ connected[lastEmit.from]
       /\ \A p \in PacketsOf(lastEmit.id) : p.to \in lastEmit.to

C19_Witness ==
  \E c \in Conns, p \in inflight :
    /\ ~connected[c]
    /\ lastEmit.id = 0
    /\ p.id = nEmits
    /\ p.to # c
    /\ connected[p.to]

\* The packets written to the socket of a connection and not yet delivered.
QueueOf(c) == {p \in inflight : p.to = c}

C20_WithinCapacity ==
  \A c \in Conns : Cardinality(QueueOf(c)) <= QueueCapacity

C20_NoSilentLoss ==
  \A p \in inflight :
    (p.event = "receive_message" /\ p \notin inflight' /\ connected'[p.to]) =>
      lastEmit' = Handled(p)

\* C20 (as claimed): the outbound queue of a connection never holds more
\* than its capacity, and a message leaves the queue of a connection that
\* stays open only by being delivered.
C20_BoundedQueue == [](C20_WithinCapacity) /\ [][C20_NoSilentLoss]_vars

\* The roles of the membership entries of user u in a member list.
OwnRoles(list, u) == {list[i].role : i \in {j \in 1..Len(list) : list[j].user = u}}

\* C21 (as claimed): PUT /api/rooms/:id is carried on to its update, and the
\* name of a room is changed, only for a caller whose own membership entry
\* in the room has role admin.
C21_UpdateByAdminOnly ==
  [][\A q \in Slots :
       /\ (requests[q] = NoRequest /\ requests'[q] # NoRequest
             /\ requests'[q].route = "put") =>
            "admin" \in OwnRoles(members[requests'[q].room], requests'[q].user)
       /\ (requests[q].route = "put"
             /\ roomDocs'[requests[q].room].name # roomDocs[requests[q].room].name) =>
            "admin" \in OwnRoles(members[requests[q].room], requests[q].user)]_vars

\* C22 (as claimed): a request to add or to remove a member is carried on to
\* its save, and the member list of a room is changed by it, only for a
\* caller whose own membership entry has role admin or moderator.
C22_MembersByStaffOnly ==
  [][\A q \in Slots :
       /\ (requests[q] = NoRequest /\ requests'[q] # NoRequest
             /\ requests'[q].route \in {"addMember", "removeMember"}) =>
            OwnRoles(members[requests'[q].room], requests'[q].user)
              \cap {"admin", "moderator"} # {}
       /\ (requests[q].route \in {"addMember", "removeMember"}
             /\ members'[requests[q].room] # members[requests[q].room]) =>
            OwnRoles(members[requests[q].room], requests[q].user)
              \cap {"admin", "moderator"} # {}]_vars

\* The users among the members of a direct room.
DirectUsers(i) == {directs[i][j].user : j \in 1..Len(directs[i])}

\* C23 (as claimed): there is at most one active direct room for each pair
\* of users, and the room POST /api/rooms/direct returns has exactly the
\* caller and the target as its members (stated for a target other than the
\* caller).
C23_OneDirectRoomPerPair ==
  /\ \A u, t \in Accounts : u # t => Cardinality(DirectRoomsOf(u, t)) <= 1
  /\ (response.status \in {200, 201} /\ response.request.route = "direct"
        /\ response.request.user # response.request.target) =>
       DirectUsers(response.request.room) =
         {response.request.user, response.request.target}

\* C25: the admins of a room stay its members with role admin, whatever
\* join, leave, add-member and remove-member requests are served: the leave of
\* an admin and the removal of an admin are refused (400, or 404 for a caller
\* the room query rejects), so the creator of a room remains its admin.
C25_AdminStays ==
  /\ \A r \in Rooms, u \in Accounts :
       "admin" \in OwnRoles(InitMembers[r], u) => "admin" \in OwnRoles(members[r], u)
  /\ (/\ response.status # 0
      /\ response.request.route \in {"leave", "removeMember"}
      /\ "admin" \in OwnRoles(InitMembers[response.request.room],
                               response.request.target)) =>
       response.status \in {400, 404}

C25_Witness ==
  /\ response.status = 400
  /\ response.request.route = "removeMember"
  /\ response.request.user # response.request.target
  /\ "admin" \in OwnRoles(members[response.request.room], response.request.target)
  /\ Len(members[response.request.room]) # Len(InitMembers[response.request.room])

\* C26 (as claimed): no user appears more than once in the member list of a
\* room, whatever the order in which the steps of concurrent join and
\* add-member requests are served.
C26_NoDuplicateMember ==
  \A r \in Rooms, u \in Accounts :
    Cardinality({i \in 1..Len(members[r]) : members[r][i].user = u}) <= 1

\* GET /api/messages/:roomId answers a member with the messages of the room
\* and anyone else with 404 'Room not found or access denied'.
C24_GetByMembersOnly ==
  (response'.status # 0 /\ response'.request.route = "get" /\ members' = members) =>
    IF IsMember(response'.request.room, response'.request.user)
    THEN /\ response'.status = 200
         /\ \A k \in 1..Len(response'.message) :
              stored[response'.message[k]].roomId = response'.request.room
    ELSE /\ response'.status = 404
         /\ response'.message = "Room not found or access denied"

\* A POST /api/messages is carried on to its save only for a member of the
\* room; a valid one of a non-member is answered 404 with the store
\* unchanged; a message enters the store only by the save of such a request,
\* with the room and the sender of the request.
C24_PostByMembersOnly ==
  /\ \A q \in Slots :
       (requests[q] = NoRequest /\ requests'[q] # NoRequest
          /\ requests'[q].route = "post") =>
         IsMember(requests'[q].room, requests'[q].user)
  /\ (/\ nInputs' = nInputs + 1
      /\ members' = members
      /\ response'.status # 0
      /\ response'.request.route = "post"
      /\ response'.request.content # TooLong
      /\ ~IsMember(response'.request.room, response'.request.user)) =>
       /\ response'.status = 404
       /\ response'.message = "Room not found or access denied"
       /\ stored' = stored
  /\ stored' # stored /\ Len(stored') > Len(stored) =>
       \E q \in Slots :
         /\ requests[q].route = "post"
         /\ stored' = Append(stored, [roomId |-> requests[q].room,
                                      sender |-> requests[q].user,
                                      content |-> requests[q].content])

LatestOf(r) ==
  IF \E i \in 1..Len(stored) : stored[i].roomId = r
  THEN CHOOSE i \in 1..Len(stored) :
         stored[i].roomId = r /\ \A j \in (i + 1)..Len(stored) : stored[j].roomId # r
  ELSE 0

\* C27 (as claimed): when no POST /api/messages is under way, the lastMessage
\* of every room is the message stored last in the room.
C27_LastMessageIsLatest ==
  (\A q \in Slots : requests[q].route # "post") =>
    \A r \in Rooms : roomDocs[r].lastMessage = LatestOf(r)

\* A deleted message keeps the content the deletion wrote.
C28_DeletedContentStays ==
  \A i \in 1..Len(stored) : msgMeta[i].isDeleted => stored[i].content = DeletedContent

\* A deleted message stays deleted; a request that names it is refused with
\* 404; GET and search do not return it; a request to edit or delete a
\* message is carried on only for its sender.
C28_DeletedIsOut ==
  /\ \A i \in 1..Len(stored) : msgMeta[i].isDeleted => msgMeta'[i].isDeleted
  /\ \A q \in Slots :
       (requests[q] = NoRequest /\ requests'[q] # NoRequest
          /\ requests'[q].route \in {"edit", "delete", "react", "unreact"}) =>
         /\ ~msgMeta[requests'[q].msg].isDeleted
         /\ requests'[q].route \in {"edit", "delete"} =>
              stored[requests'[q].msg].sender = requests'[q].user
  /\ (/\ nInputs' = nInputs + 1
      /\ members' = members
      /\ response'.status # 0
      /\ response'.request.route \in {"edit", "delete", "react", "unreact"}
      /\ response'.request.msg \in 1..Len(stored)
      /\ msgMeta[response'.request.msg].isDeleted) =>
       response'.status = 404 /\ stored' = stored /\ msgMeta' = msgMeta
  /\ (/\ response'.status = 200
      /\ response'.request.route \in {"get", "search"}
      /\ members' = members) =>
       \A k \in 1..Len(response'.message) : ~msgMeta[response'.message[k]].isDeleted

\* C28 (as claimed): once a message is deleted it stays isDeleted with the
\* content 'This message was deleted', later requests on it fail with 404 and
\* change nothing, GET and search never return it, and only its sender can
\* delete or edit a message.
C28_DeletionIsTerminal == [](C28_DeletedContentStays) /\ [][C28_DeletedIsOut]_vars

\* C29 (as claimed): whenever the socket of a client is connected and a room
\* is selected, the connection is subscribed on the server to exactly the
\* selected room (leave_room for the previous room is handled before
\* join_room for the new one, so that selecting the same room again leaves
\* the client subscribed).
C29_SubscribedToSelected ==
  \A c \in Conns :
    (connected[c] /\ selectedRoom[c] # NoRoom) => RoomsOf(rooms, c) = {selectedRoom[c]}

\* C30 (first part): a room for which the client's last typing event said
\* isTyping=true has the typing=false still to come: the typing timeout is
\* pending for that room.
C30_FalseIsDue ==
  \A c \in Conns : \A r \in typingSent[c] :
    typingTimer[c].left >= 0 /\ typingTimer[c].room = r

\* C30 (second part): a step in which a client emits typing=true takes the
\* client from not typing to typing.
C30_TrueOnChangeOnly ==
  \A c \in Conns :
    (\E e \in StepEmits' : e.event = "user_typing" /\ e.from = c /\ e.input.isTyping)
      => (~isTyping[c] /\ isTyping'[c])

\* C30: on the client every typing=true for a room is followed by a
\* typing=false for the same room, also when the user switches to another
\* room while the typing timeout is pending, and typing=true is emitted only
\* on the change from not typing to typing.
C30_TypingIsCleared == [](C30_FalseIsDue) /\ [][C30_TrueOnChangeOnly]_vars


====
